---- MODULE Spec2Model ----
(***************************************************************************)
(* Model of the capture Recorder (src/modules/capture/recorder.rs): the    *)
(* host render thread driving the public Recorder API, the worker thread   *)
(* that owns the GPU backend and the Muxer, and the two bounded crossbeam  *)
(* channels between them.                                                  *)
(*                                                                         *)
(* Arithmetic.  The f64 accumulators are modelled as exact rationals with  *)
(* fixed denominators:                                                     *)
(*   - video_remainder is counted in ticks, VDen ticks per output frame    *)
(*     (one tick = time_base / VDen seconds);                              *)
(*   - sound_remainder is counted in sound units, one sound unit being     *)
(*     1 / (TicksPerSecond * SampleRate) seconds, so that one sample       *)
(*     period (1 / rate seconds) is TicksPerSecond sound units.            *)
(* For inputs that are dyadic rationals the f64 operations of the code are *)
(* exact and coincide with this arithmetic.                                *)
(***************************************************************************)
EXTENDS Integers, Sequences, FiniteSets, TLC

\* ---------------------------------------------------------------- bounds
\* Number of public Recorder calls the host makes in one session.
MaxOps == 5
\* Half an output frame, in ticks.
HalfDen == 2
\* Output frames per second (the fps argument of init).
Fps == 2
\* samples_per_second passed to samples_to_capture.
SampleRate == 2

\* ------------------------------------------------------ program constants
\* bounded(2): host -> worker channel.
ToThreadCap == 2
\* bounded(1): worker -> host channel.
ToMainCap == 1
\* i32::MAX, the saturation point of `samples_rounded as i32`.
I32Max == 2147483647

VDen == 2 * HalfDen
TicksPerSecond == Fps * VDen

\* Time steps (in ticks) passed to time_passed: zero, less than half a frame,
\* exactly half a frame, one frame, two frames.
DtSet == {0, 1, HalfDen, VDen, 2 * VDen}
\* Audio buffers handed to write_audio_frame.
Payloads == {1, 2}
\* `extra` of SoundCaptureMode::Remaining, in ticks.
Extras == {0, 1, VDen}

VARIABLES
    \* Recorder fields
    video_remainder, sound_remainder, opengl, acquired_image, thread_error,
    \* channels and the liveness of their endpoints
    toThread, toMain, senderAlive, receiverAlive, wAlive,
    \* host render thread: position, current/last public call, locals
    hpc, hop, hmsg, hframes, hres,
    \* worker thread: position, message in hand, error report
    wpc, wmsg, werr,
    \* Muxer
    closeCount,
    \* history
    nops, sentLog, procLog, totalTime, sumFrames, totalSamples,
    usedRemaining, pendingAcq, onScript, glFailed,
    lastExtra, errReturned, acqOk,
    \* Recorder::init: its arguments and what it has created
    width, height, vulkanInited, muxerOpened,
    \* bulk_idx_and_is_last: the lines, the iterator's position, the items yielded
    lines, bpos, items

vars == <<video_remainder, sound_remainder, opengl, acquired_image, thread_error,
          toThread, toMain, senderAlive, receiverAlive, wAlive,
          hpc, hop, hmsg, hframes, hres, wpc, wmsg, werr, closeCount,
          nops, sentLog, procLog, totalTime, sumFrames, totalSamples,
          usedRemaining, pendingAcq, onScript, glFailed,
          lastExtra, errReturned, acqOk,
          width, height, vulkanInited, muxerOpened, lines, bpos, items>>

recVars == <<video_remainder, sound_remainder, opengl, acquired_image, thread_error>>
workerVars == <<wpc, wmsg, werr, closeCount, procLog, wAlive>>
soundHist == <<totalSamples, usedRemaining, lastExtra>>
initVars == <<width, height, vulkanInited, muxerOpened>>
bulkVars == <<lines, bpos, items>>
otherVars == <<initVars, bulkVars>>

\* ------------------------------------------------------------- messages
\* enum MainToThread
MainToThread(type, arg) == [type |-> type, arg |-> arg]
NoMsg == MainToThread("none", 0)
\* enum ThreadToMain
ThreadToMain(type, rep) == [type |-> type, rep |-> rep]

IsData(m) == m.type \in {"Record", "Audio"}

\* ------------------------------------------------------ pure functions
\* `(self.video_remainder + 0.5) as usize`: the cast truncates toward zero
\* and saturates negative values at 0.
FramesOf(rem) ==
    IF rem + HalfDen <= 0 THEN 0 ELSE (rem + HalfDen) \div VDen

\* Mutation: the frames emitted are not taken off the remainder.
SubtractNothing(rem, frames) == rem

\* `self.video_remainder -= frames as f64`
SubtractFrames(rem, frames) == rem - frames * VDen

\* f64 ceil of the rational n / d, d > 0.
CeilDiv(n, d) == -((-n) \div d)

\* `x as i32` for an integral f64: saturating.
ToI32(x) == IF x > I32Max THEN I32Max ELSE IF x < -I32Max - 1 THEN -I32Max - 1 ELSE x

\* Mutation: Normal mode rounds up like Remaining does.
SamplesRoundedUp(rem, mode, extra) ==
    CeilDiv(rem + (IF mode = "Normal" THEN 0 ELSE extra * SampleRate), TicksPerSecond)

\* Mutation: Remaining mode rounds down like Normal does.
SamplesRoundedDown(rem, mode, extra) ==
    (rem + (IF mode = "Normal" THEN 0 ELSE extra * SampleRate)) \div TicksPerSecond

\* samples_rounded of samples_to_capture, before the cast: sound_remainder
\* * rate is rem / TicksPerSecond samples; extra seconds * rate is
\* extra * SampleRate / TicksPerSecond samples.
SamplesRounded(rem, mode, extra) ==
    IF mode = "Normal"
    THEN rem \div TicksPerSecond
    ELSE CeilDiv(rem + extra * SampleRate, TicksPerSecond)

\* `(samples - samples_rounded) / samples_per_second`, in sound units.
SoundRemainderAfter(rem, rounded) == rem - rounded * TicksPerSecond

\* Mutation: the drained messages are discarded without looking for an Error.
LastErrorDropped(msgs, stash) == stash

\* The last Error report among the messages drained by try_recv, else the
\* report already stashed.
RECURSIVE LastError(_, _)
LastError(msgs, stash) ==
    IF msgs = <<>> THEN stash
    ELSE LastError(Tail(msgs),
                   IF Head(msgs).type = "Error" THEN Head(msgs).rep ELSE stash)

RECURSIVE CountType(_, _)
CountType(msgs, type) ==
    IF msgs = <<>> THEN 0
    ELSE (IF Head(msgs).type = type THEN 1 ELSE 0) + CountType(Tail(msgs), type)

\* The scenario of ten iterations of time_passed(one frame period),
\* capture_opengl, record_last_frame: the k-th call (0-based).
ScriptIters == 10
ScriptLen == 3 * ScriptIters
ScriptStep(k, op, dt) ==
    /\ k < ScriptLen
    /\ CASE k % 3 = 0 -> op = "time_passed" /\ dt = VDen
         [] k % 3 = 1 -> op = "capture_opengl"
         [] OTHER     -> op = "record_last_frame"

\* ----------------------------------------------------------------- Init
\* The Recorder init returns and the session history, worker spawned,
\* channels empty.
SessionStart ==
    /\ video_remainder = 0
    /\ sound_remainder = 0
    /\ opengl = FALSE
    /\ acquired_image = FALSE
    /\ thread_error = "none"
    /\ toThread = <<>>
    /\ toMain = <<>>
    /\ senderAlive = TRUE
    /\ receiverAlive = TRUE
    /\ wAlive = TRUE
    /\ hpc = "idle"
    /\ hop = "init"
    /\ hmsg = NoMsg
    /\ hframes = 0
    /\ hres = "ok"
    /\ wpc = "recv"
    /\ wmsg = NoMsg
    /\ werr = "none"
    /\ closeCount = 0
    /\ nops = 0
    /\ sentLog = <<>>
    /\ procLog = <<>>
    /\ totalTime = 0
    /\ sumFrames = 0
    /\ totalSamples = 0
    /\ usedRemaining = FALSE
    /\ pendingAcq = 0
    /\ onScript = TRUE
    /\ glFailed = FALSE
    /\ lastExtra = -1
    /\ errReturned = FALSE
    /\ acqOk = 0

\* No bulk_idx_and_is_last iterator is in use.
NoBulkIter == lines = <<>> /\ bpos = 0 /\ items = <<>>

\* The state after a successful Recorder::init of an even-sized game window.
Init ==
    /\ SessionStart
    /\ width = 2 /\ height = 2
    /\ vulkanInited = TRUE
    /\ muxerOpened = TRUE
    /\ NoBulkIter

\* A public call begins: the host is between calls and the session budget
\* is not used up.
CanCall == hpc = "idle" /\ nops < MaxOps

Called(op, dt) ==
    /\ nops' = nops + 1
    /\ hop' = op
    /\ onScript' = (onScript /\ ScriptStep(nops, op, dt))

\* ------------------------------------------------------- host thread
\* Mutation: an acquisition is requested only for two or more frames.
AcquireNeededLate(flag, rem) == ~flag /\ FramesOf(rem) > 1

\* Mutation: the acquired_image flag is not consulted.
AcquireNeededAlways(flag, rem) == FramesOf(rem) > 0

\* acquire_image_if_needed: an acquisition is requested when none is
\* outstanding and the remainder rounds to at least one frame.
AcquireNeeded(flag, rem) == ~flag /\ FramesOf(rem) > 0

\* Sender::send on the host -> worker channel: accepted when the worker still
\* holds its receiver and there is room; an error once the receiver is gone;
\* blocked otherwise.
SendAccepted == wAlive /\ Len(toThread) < ToThreadCap
SendFailed == ~wAlive

\* Where the host continues once send_to_thread has returned.
AfterSend(op) ==
    CASE op = "capture_opengl" -> "recv"
      [] op = "finish"         -> "drain"
      [] OTHER                 -> "idle"

\* time_passed(dt): accumulate, then acquire_image_if_needed.
TimePassed(dt) ==
    /\ CanCall
    /\ Called("time_passed", dt)
    /\ video_remainder' = video_remainder + dt
    /\ sound_remainder' = sound_remainder + dt * SampleRate
    /\ totalTime' = totalTime + dt
    /\ IF AcquireNeeded(acquired_image, video_remainder')
       THEN /\ acquired_image' = TRUE
            /\ hpc' = "send"
            /\ hmsg' = MainToThread("AcquireImage", 0)
            /\ hres' = "pending"
       ELSE /\ hres' = "ok"
            /\ UNCHANGED <<acquired_image, hpc, hmsg>>
    /\ UNCHANGED <<opengl, thread_error, toThread, toMain, senderAlive,
                   receiverAlive, hframes, workerVars, sentLog, sumFrames,
                   soundHist, errReturned, acqOk, otherVars, pendingAcq,
                   glFailed>>

\* write_audio_frame(samples)
WriteAudioFrame(samples) ==
    /\ CanCall
    /\ Called("write_audio_frame", 0)
    /\ hpc' = "send"
    /\ hmsg' = MainToThread("Audio", samples)
    /\ hres' = "pending"
    /\ UNCHANGED <<recVars, toThread, toMain, senderAlive, receiverAlive,
                   hframes, workerVars, sentLog, totalTime, sumFrames,
                   soundHist, errReturned, acqOk, otherVars, pendingAcq,
                   glFailed>>

\* reset_opengl()
ResetOpengl ==
    /\ CanCall
    /\ Called("reset_opengl", 0)
    /\ opengl' = FALSE
    /\ hres' = "ok"
    /\ UNCHANGED <<video_remainder, sound_remainder, acquired_image,
                   thread_error, toThread, toMain, senderAlive, receiverAlive,
                   hpc, hmsg, hframes, workerVars, sentLog, totalTime,
                   sumFrames, soundHist, errReturned, acqOk, otherVars,
                   pendingAcq, glFailed>>

\* samples_to_capture(SampleRate, mode)
SamplesToCapture(mode, extra) ==
    /\ CanCall
    /\ Called("samples_to_capture", 0)
    /\ LET rounded == SamplesRounded(sound_remainder, mode, extra)
       IN /\ sound_remainder' = SoundRemainderAfter(sound_remainder, rounded)
          /\ totalSamples' = totalSamples + ToI32(rounded)
    /\ usedRemaining' = (usedRemaining \/ mode # "Normal")
    /\ lastExtra' = IF mode = "Normal" THEN -1 ELSE extra
    /\ hres' = "ok"
    /\ UNCHANGED <<video_remainder, opengl, acquired_image, thread_error,
                   toThread, toMain, senderAlive, receiverAlive, hpc, hmsg,
                   hframes, workerVars, sentLog, totalTime, sumFrames,
                   pendingAcq, glFailed, errReturned, acqOk, otherVars>>

\* capture_opengl(): initialize_opengl_capturing on first use, else the
\* render-capture backend's capture(), which may fail.
CaptureOpengl ==
    /\ CanCall
    /\ Called("capture_opengl", 0)
    /\ IF ~opengl
       THEN /\ hpc' = "send"
            /\ hmsg' = MainToThread("GiveExternalHandles", 0)
            /\ hres' = "pending"
            /\ UNCHANGED glFailed
       ELSE /\ \E capOk \in BOOLEAN :
                 /\ hres' = IF capOk THEN "ok" ELSE "gl error"
                 /\ glFailed' = (glFailed \/ ~capOk)
            /\ UNCHANGED <<hpc, hmsg>>
    /\ UNCHANGED <<recVars, toThread, toMain, senderAlive, receiverAlive,
                   hframes, workerVars, sentLog, totalTime, sumFrames,
                   soundHist, errReturned, acqOk, otherVars, pendingAcq>>

\* record_last_frame(): round, subtract, and enter record(frames) when
\* frames > 0; record's first assertion panics when no image was requested.
RecordLastFrame ==
    /\ CanCall
    /\ Called("record_last_frame", 0)
    /\ LET frames == FramesOf(video_remainder)
       IN /\ video_remainder' = SubtractFrames(video_remainder, frames)
          /\ IF frames = 0
             THEN /\ hres' = "ok"
                  /\ UNCHANGED <<hpc, hframes>>
             ELSE IF ~acquired_image
             THEN /\ hres' = "panic"
                  /\ hpc' = "unwind"
                  /\ UNCHANGED hframes
             ELSE /\ hres' = "pending"
                  /\ hpc' = "recv"
                  /\ hframes' = frames
    /\ UNCHANGED <<sound_remainder, opengl, acquired_image, thread_error,
                   toThread, toMain, senderAlive, receiverAlive, hmsg,
                   workerVars, sentLog, totalTime, sumFrames, soundHist,
                   errReturned, acqOk, otherVars, pendingAcq, glFailed>>

\* finish(): send Finish, then drain and join (FinishDrain, FinishJoin).
Finish ==
    /\ CanCall
    /\ Called("finish", 0)
    /\ hpc' = "send"
    /\ hmsg' = MainToThread("Finish", 0)
    /\ hres' = "pending"
    /\ UNCHANGED <<recVars, toThread, toMain, senderAlive, receiverAlive,
                   hframes, workerVars, sentLog, totalTime, sumFrames,
                   soundHist, errReturned, acqOk, otherVars, pendingAcq,
                   glFailed>>

\* send_to_thread(hmsg) completes: the message is queued, or the channel is
\* closed and the worker's buffered messages are drained for an Error.
HostSend ==
    /\ hpc = "send"
    /\ SendAccepted \/ SendFailed
    /\ IF SendAccepted
       THEN /\ toThread' = Append(toThread, hmsg)
            /\ sentLog' = IF IsData(hmsg) THEN Append(sentLog, hmsg) ELSE sentLog
            /\ sumFrames' = IF hmsg.type = "Record" THEN sumFrames + hmsg.arg
                                                    ELSE sumFrames
            /\ pendingAcq' = IF hmsg.type = "AcquireImage" THEN pendingAcq + 1
                                                           ELSE pendingAcq
            /\ UNCHANGED <<toMain, thread_error>>
       ELSE /\ toMain' = <<>>
            /\ thread_error' = LastError(toMain, thread_error)
            /\ pendingAcq' = pendingAcq - CountType(toMain, "AcquiredImage")
            /\ UNCHANGED <<toThread, sentLog, sumFrames>>
    /\ hpc' = AfterSend(hop)
    /\ hmsg' = NoMsg
    /\ hres' = IF AfterSend(hop) = "idle" THEN "ok" ELSE hres
    /\ UNCHANGED <<video_remainder, sound_remainder, opengl, acquired_image,
                   senderAlive, receiverAlive, hop, hframes, workerVars, nops,
                   totalTime, soundHist, errReturned, acqOk, otherVars,
                   onScript, glFailed>>

\* recv_from_thread: a buffered message (an Error becomes Err(report)), or,
\* when the worker is gone and nothing is buffered, the stashed report or the
\* opaque "recording thread error".
RecvReady == toMain # <<>> \/ ~wAlive
RecvIsOk == toMain # <<>> /\ Head(toMain).type # "Error"
\* Mutation: every failed receive yields the opaque error, losing the report.
RecvErrOpaque == "recording thread error"
RecvErr ==
    IF toMain # <<>> THEN Head(toMain).rep
    ELSE IF thread_error # "none" THEN thread_error
    ELSE "recording thread error"

\* The message a caller of recv_from_thread expects.
Expected(op) == IF op = "capture_opengl" THEN "ExternalHandles" ELSE "AcquiredImage"

\* The blocking receive of initialize_opengl_capturing (then opengl::init and
\* capture()) and of record (then the Record send).
HostRecv ==
    /\ hpc = "recv"
    /\ RecvReady
    /\ toMain' = IF toMain # <<>> THEN Tail(toMain) ELSE toMain
    /\ thread_error' = IF toMain # <<>> THEN thread_error ELSE "none"
    /\ pendingAcq' = IF toMain # <<>> /\ Head(toMain).type = "AcquiredImage"
                     THEN pendingAcq - 1 ELSE pendingAcq
    /\ IF ~RecvIsOk
       THEN /\ hres' = RecvErr
            /\ hpc' = "idle"
            /\ UNCHANGED <<opengl, acquired_image, hmsg, glFailed>>
       ELSE IF Head(toMain).type # Expected(hop)
       THEN /\ hres' = "panic"
            /\ hpc' = "unwind"
            /\ UNCHANGED <<opengl, acquired_image, hmsg, glFailed>>
       ELSE IF hop = "capture_opengl"
       THEN /\ \E initOk, capOk \in BOOLEAN :
                 /\ opengl' = initOk
                 /\ hres' = IF initOk /\ capOk THEN "ok" ELSE "gl error"
                 /\ glFailed' = (glFailed \/ ~(initOk /\ capOk))
            /\ hpc' = "idle"
            /\ UNCHANGED <<acquired_image, hmsg>>
       ELSE /\ acquired_image' = FALSE
            /\ hpc' = "send"
            /\ hmsg' = MainToThread("Record", hframes)
            /\ UNCHANGED <<opengl, hres, glFailed>>
    /\ hframes' = 0
    /\ errReturned' = (errReturned \/ (~RecvIsOk /\ RecvErr = werr))
    /\ UNCHANGED <<video_remainder, sound_remainder, toThread, senderAlive,
                   receiverAlive, hop, workerVars, nops, sentLog, totalTime,
                   sumFrames, soundHist, acqOk, otherVars, onScript>>

\* finish's `while let Ok(message) = self.receiver.recv()`: one iteration, or
\* the end of the loop once the worker has dropped its sender.
FinishDrain ==
    /\ hpc = "drain"
    /\ RecvReady
    /\ IF toMain # <<>>
       THEN /\ toMain' = Tail(toMain)
            /\ thread_error' = LastError(<<Head(toMain)>>, thread_error)
            /\ pendingAcq' = pendingAcq - CountType(<<Head(toMain)>>, "AcquiredImage")
            /\ UNCHANGED hpc
       ELSE /\ hpc' = "join"
            /\ UNCHANGED <<toMain, thread_error, pendingAcq>>
    /\ UNCHANGED <<video_remainder, sound_remainder, opengl, acquired_image,
                   toThread, senderAlive, receiverAlive, hop, hmsg, hframes,
                   hres, workerVars, nops, sentLog, totalTime, sumFrames,
                   soundHist, errReturned, acqOk, otherVars, onScript,
                   glFailed>>

\* finish's `self.thread.join().unwrap()`, the log line, and the drop of the
\* consumed Recorder.
FinishJoin ==
    /\ hpc = "join"
    /\ wpc \in {"done", "panicked"}
    /\ IF wpc = "panicked"
       THEN /\ hres' = "panic"
            /\ hpc' = "unwind"
            /\ UNCHANGED <<senderAlive, receiverAlive>>
       ELSE /\ hres' = "ok"
            /\ hpc' = "done"
            /\ senderAlive' = FALSE
            /\ receiverAlive' = FALSE
    /\ UNCHANGED <<recVars, toThread, toMain, hop, hmsg, hframes, workerVars,
                   nops, sentLog, totalTime, sumFrames, soundHist,
                   errReturned, acqOk, otherVars, pendingAcq, onScript,
                   glFailed>>

\* The host lets go of the Recorder without finish() (or unwinds from a
\* panic): fields are dropped in declaration order, the JoinHandle (detaching
\* the worker) and the Sender first ...
DropRecorder ==
    /\ hpc \in {"idle", "unwind"}
    /\ senderAlive' = FALSE
    /\ hpc' = "dropping"
    /\ UNCHANGED <<recVars, toThread, toMain, receiverAlive, hop, hmsg,
                   hframes, hres, workerVars, nops, sentLog, totalTime,
                   sumFrames, soundHist, errReturned, acqOk, otherVars,
                   pendingAcq, onScript, glFailed>>

\* ... and the Receiver after it.
DropReceiver ==
    /\ hpc = "dropping"
    /\ receiverAlive' = FALSE
    /\ hpc' = "gone"
    /\ UNCHANGED <<recVars, toThread, toMain, senderAlive, hop, hmsg, hframes,
                   hres, workerVars, nops, sentLog, totalTime, sumFrames,
                   soundHist, errReturned, acqOk, otherVars, pendingAcq,
                   onScript, glFailed>>

\* ------------------------------------------------------ worker thread
\* The report of a failed backend or Muxer call, by the call that failed.
ErrorReport(m) ==
    CASE m.type = "GiveExternalHandles" -> "external_handles failed"
      [] m.type = "AcquireImage"        -> "acquire_image failed"
      [] m.type = "Record"              -> "convert_colors_and_mux failed"
      [] OTHER                          -> "write_audio_frame failed"

\* The reply process_message sends for a request.
Reply(m) ==
    IF m.type = "GiveExternalHandles"
    THEN ThreadToMain("ExternalHandles", "none")
    ELSE ThreadToMain("AcquiredImage", "none")

\* Mutation: the newest queued message is taken instead of the oldest.
NextMessageNewest(queue) == queue[Len(queue)]

\* The message `r.recv()` hands to the loop.
NextMessage(queue) == Head(queue)
RestOf(queue) == Tail(queue)

\* `while let Ok(message) = r.recv()`: the next message in FIFO order, or the
\* end of the loop once the host's sender is dropped and the queue is empty.
WorkerRecv ==
    /\ wpc = "recv"
    /\ toThread # <<>> \/ ~senderAlive
    /\ IF toThread # <<>>
       THEN /\ wmsg' = NextMessage(toThread)
            /\ toThread' = RestOf(toThread)
            /\ wpc' = "process"
       ELSE /\ wpc' = "close"
            /\ UNCHANGED <<wmsg, toThread>>
    /\ UNCHANGED <<recVars, toMain, senderAlive, receiverAlive, wAlive, hpc,
                   hop, hmsg, hframes, hres, werr, closeCount, nops, sentLog,
                   procLog, totalTime, sumFrames, soundHist, errReturned,
                   acqOk, otherVars, pendingAcq, onScript, glFailed>>

\* Mutation: the loop also ends after an Audio message.
AfterProcessStopsEarly(m) ==
    CASE m.type \in {"Finish", "Audio"}                     -> "close"
      [] m.type \in {"GiveExternalHandles", "AcquireImage"} -> "send"
      [] OTHER                                              -> "recv"

\* Where the worker goes after a message was processed without error.
AfterProcess(m) ==
    CASE m.type = "Finish"                                 -> "close"
      [] m.type \in {"GiveExternalHandles", "AcquireImage"} -> "send"
      [] OTHER                                             -> "recv"

\* process_message up to its reply: Finish ends the loop; every other message
\* calls the GPU backend or the Muxer, which succeeds or fails.
WorkerProcess ==
    /\ wpc = "process"
    /\ \E ok \in BOOLEAN :
         IF ok \/ wmsg.type = "Finish"
         THEN /\ wpc' = AfterProcess(wmsg)
              /\ acqOk' = IF wmsg.type = "AcquireImage" THEN acqOk + 1 ELSE acqOk
              /\ wmsg' = IF AfterProcess(wmsg) = "send" THEN wmsg ELSE NoMsg
              /\ UNCHANGED werr
         ELSE /\ wpc' = "sendErr"
              /\ werr' = ErrorReport(wmsg)
              /\ wmsg' = NoMsg
              /\ UNCHANGED acqOk
    /\ procLog' = IF IsData(wmsg) THEN Append(procLog, wmsg) ELSE procLog
    /\ UNCHANGED <<recVars, toThread, toMain, senderAlive, receiverAlive,
                   wAlive, hpc, hop, hmsg, hframes, hres, closeCount, nops,
                   sentLog, totalTime, sumFrames, soundHist, errReturned,
                   otherVars, pendingAcq, onScript, glFailed>>

\* Sender::send on the worker -> host channel followed by unwrap(): a panic
\* once the host's receiver is dropped; blocked while the channel is full.
ReplyReady == ~receiverAlive \/ Len(toMain) < ToMainCap

\* The worker panics: it unwinds past muxer.close() and drops its endpoints.
WorkerPanics ==
    /\ wpc' = "panicked"
    /\ wAlive' = FALSE
    /\ wmsg' = NoMsg
    /\ UNCHANGED toMain

\* `s.send(ThreadToMain::ExternalHandles(..) / AcquiredImage).unwrap()`
WorkerSend ==
    /\ wpc = "send"
    /\ ReplyReady
    /\ IF ~receiverAlive
       THEN WorkerPanics
       ELSE /\ toMain' = Append(toMain, Reply(wmsg))
            /\ wpc' = "recv"
            /\ wmsg' = NoMsg
            /\ UNCHANGED wAlive
    /\ UNCHANGED <<recVars, toThread, senderAlive, receiverAlive, hpc, hop,
                   hmsg, hframes, hres, werr, closeCount, nops, sentLog,
                   procLog, totalTime, sumFrames, soundHist, errReturned,
                   acqOk, otherVars, pendingAcq, onScript, glFailed>>

\* `s.send(ThreadToMain::Error(err)).unwrap(); break`
WorkerSendError ==
    /\ wpc = "sendErr"
    /\ ReplyReady
    /\ IF ~receiverAlive
       THEN WorkerPanics
       ELSE /\ toMain' = Append(toMain, ThreadToMain("Error", werr))
            /\ wpc' = "close"
            /\ UNCHANGED <<wmsg, wAlive>>
    /\ UNCHANGED <<recVars, toThread, senderAlive, receiverAlive, hpc, hop,
                   hmsg, hframes, hres, werr, closeCount, nops, sentLog,
                   procLog, totalTime, sumFrames, soundHist, errReturned,
                   acqOk, otherVars, pendingAcq, onScript, glFailed>>

\* `muxer.close()` after the loop.
WorkerClose ==
    /\ wpc = "close"
    /\ closeCount' = closeCount + 1
    /\ wpc' = "exit"
    /\ UNCHANGED <<recVars, toThread, toMain, senderAlive, receiverAlive,
                   wAlive, hpc, hop, hmsg, hframes, hres, wmsg, werr, nops,
                   sentLog, procLog, totalTime, sumFrames, soundHist,
                   errReturned, acqOk, otherVars, pendingAcq, onScript,
                   glFailed>>

\* The thread function returns: its Receiver and Sender are dropped.
WorkerExit ==
    /\ wpc = "exit"
    /\ wAlive' = FALSE
    /\ wpc' = "done"
    /\ UNCHANGED <<recVars, toThread, toMain, senderAlive, receiverAlive, hpc,
                   hop, hmsg, hframes, hres, wmsg, werr, closeCount, nops,
                   sentLog, procLog, totalTime, sumFrames, soundHist,
                   errReturned, acqOk, otherVars, pendingAcq, onScript,
                   glFailed>>

\* ------------------------------------------------------ specification
HostCall ==
    \/ \E dt \in DtSet : TimePassed(dt)
    \/ \E samples \in Payloads : WriteAudioFrame(samples)
    \/ ResetOpengl
    \/ SamplesToCapture("Normal", 0)
    \/ \E extra \in Extras : SamplesToCapture("Remaining", extra)
    \/ CaptureOpengl
    \/ RecordLastFrame
    \/ Finish

HostStep ==
    \/ HostSend
    \/ HostRecv
    \/ FinishDrain
    \/ FinishJoin
    \/ DropRecorder
    \/ DropReceiver

WorkerStep ==
    \/ WorkerRecv
    \/ WorkerProcess
    \/ WorkerSend
    \/ WorkerSendError
    \/ WorkerClose
    \/ WorkerExit

Next == HostCall \/ HostStep \/ WorkerStep

Spec == Init /\ [][Next]_vars

\* ------------------------------------------------------ Recorder::init
\* Largest |width|, |height| passed to init (both are i32).
MaxDim == 3
Dims == -MaxDim .. MaxDim

\* Rust's `%` on i32: the remainder takes the sign of the dividend.
RustRem(a, b) == IF a >= 0 THEN a % b ELSE -((-a) % b)

\* Mutation: only the width is validated.
EvenWidthOnly(w, h) == RustRem(w, 2) = 0

\* `width % 2 == 0 && height % 2 == 0`
EvenDims(w, h) == RustRem(w, 2) = 0 /\ RustRem(h, 2) = 0

\* init has been called with some width and height and has done nothing yet.
InitCalled ==
    /\ width \in Dims /\ height \in Dims
    /\ vulkanInited = FALSE
    /\ muxerOpened = FALSE
    /\ senderAlive = FALSE
    /\ receiverAlive = FALSE
    /\ wAlive = FALSE
    /\ wpc = "unspawned"
    /\ hpc = "ensure"
    /\ hop = "init"
    /\ hres = "pending"
    /\ video_remainder = 0 /\ sound_remainder = 0
    /\ opengl = FALSE /\ acquired_image = FALSE /\ thread_error = "none"
    /\ toThread = <<>> /\ toMain = <<>>
    /\ hmsg = NoMsg /\ hframes = 0
    /\ wmsg = NoMsg /\ werr = "none" /\ closeCount = 0
    /\ nops = 0 /\ sentLog = <<>> /\ procLog = <<>>
    /\ totalTime = 0 /\ sumFrames = 0 /\ totalSamples = 0
    /\ usedRemaining = FALSE /\ pendingAcq = 0 /\ onScript = TRUE
    /\ glFailed = FALSE /\ lastExtra = -1 /\ errReturned = FALSE /\ acqOk = 0
    /\ NoBulkIter

\* What an init step leaves alone.
initFrame == <<recVars, toThread, toMain, hop, hmsg, hframes, wmsg, werr,
               closeCount, nops, sentLog, procLog, totalTime, sumFrames,
               soundHist, errReturned, acqOk, pendingAcq, onScript, glFailed,
               width, height, bulkVars>>

\* init returns Err(report).
InitFails(report) == hpc' = "failed" /\ hres' = report

\* `ensure!(width % 2 == 0 && height % 2 == 0, ...)`
InitEnsure ==
    /\ hpc = "ensure"
    /\ IF EvenDims(width, height)
       THEN hpc' = "vulkan" /\ UNCHANGED hres
       ELSE InitFails("can't handle odd game resolutions yet")
    /\ UNCHANGED <<initFrame, vulkanInited, muxerOpened, senderAlive,
                   receiverAlive, wAlive, wpc>>

\* `vulkan::init(width as u32, height as u32).wrap_err(..)?`
InitVulkan ==
    /\ hpc = "vulkan"
    /\ \E ok \in BOOLEAN :
         IF ok
         THEN vulkanInited' = TRUE /\ hpc' = "muxer" /\ UNCHANGED hres
         ELSE InitFails("error initalizing Vulkan") /\ UNCHANGED vulkanInited
    /\ UNCHANGED <<initFrame, muxerOpened, senderAlive, receiverAlive, wAlive,
                   wpc>>

\* `match Muxer::new(width as u64, height as u64, fps, filename)`
InitMuxer ==
    /\ hpc = "muxer"
    /\ \E res \in {"Ok", "FfmpegSpawn", "Other"} :
         CASE res = "Ok" ->
                muxerOpened' = TRUE /\ hpc' = "spawn" /\ UNCHANGED hres
           [] res = "FfmpegSpawn" ->
                InitFails("could not start ffmpeg") /\ UNCHANGED muxerOpened
           [] OTHER ->
                InitFails("error initializing muxing") /\ UNCHANGED muxerOpened
    /\ UNCHANGED <<initFrame, vulkanInited, senderAlive, receiverAlive, wAlive,
                   wpc>>

\* bounded(2), bounded(1), thread::spawn, Ok(Recorder { .. })
InitSpawn ==
    /\ hpc = "spawn"
    /\ senderAlive' = TRUE
    /\ receiverAlive' = TRUE
    /\ wAlive' = TRUE
    /\ wpc' = "recv"
    /\ hpc' = "idle"
    /\ hres' = "ok"
    /\ UNCHANGED <<initFrame, vulkanInited, muxerOpened>>

NextInit == InitEnsure \/ InitVulkan \/ InitMuxer \/ InitSpawn

SpecInit == InitCalled /\ [][NextInit]_vars

\* ------------------------------------------------ bulk_idx_and_is_last
\* Longest list of lines and largest frame_count of a frame bulk.
MaxLines == 4
MaxCount == 2

\* A line is modelled by its frame count: 0 for a line that is not a frame
\* bulk, frame_count (a NonZeroU32) for a frame bulk.
LineLists == UNION {[1 .. n -> 0 .. MaxCount] : n \in 0 .. MaxLines}

\* `lines.iter()` with each line's position standing for its reference.
RECURSIVE IterLines(_, _)
IterLines(ls, from) ==
    IF from > Len(ls) THEN <<>>
    ELSE <<[line |-> from, frame_count |-> ls[from]]>> \o IterLines(ls, from + 1)

\* `.filter_map(Line::frame_bulk)`
IsFrameBulk(l) == l.frame_count > 0
FilterMapFrameBulk(it) == SelectSeq(it, IsFrameBulk)

\* `.enumerate()`: 0-based.
Enumerate(it) == [k \in 1 .. Len(it) |-> [idx |-> k - 1, bulk |-> it[k]]]

\* `iter::repeat((idx, bulk)).take(bulk.frame_count.get() as usize)`
RepeatTake(e) == [r \in 1 .. e.bulk.frame_count |-> e]

\* `.flat_map(..)`
RECURSIVE FlatMapRepeat(_)
FlatMapRepeat(it) ==
    IF it = <<>> THEN <<>> ELSE RepeatTake(Head(it)) \o FlatMapRepeat(Tail(it))

\* Mutation: the lines are numbered before the non-bulk lines are dropped.
bulk_idx_all_lines(ls) == FlatMapRepeat(FilterMapFrameBulk(
    [k \in 1 .. Len(ls) |->
        [idx |-> k - 1, bulk |-> IterLines(ls, 1)[k],
         frame_count |-> ls[k]]]))

\* `let bulk_idx = lines.iter().filter_map(..).enumerate().flat_map(..)`
bulk_idx(ls) == FlatMapRepeat(Enumerate(FilterMapFrameBulk(IterLines(ls, 1))))

\* The iterator is created over some list of lines.
InitBulk ==
    /\ SessionStart
    /\ width = 2 /\ height = 2
    /\ vulkanInited = TRUE
    /\ muxerOpened = TRUE
    /\ lines \in LineLists
    /\ bpos = 0
    /\ items = <<>>

\* One call of the batching closure that yields an item: `it.next()?`, then
\* `it.peek()` decides is_last.
BulkNext ==
    /\ bpos < Len(bulk_idx(lines))
    /\ LET it == bulk_idx(lines)
           curr == it[bpos + 1]
           is_last == IF bpos + 2 > Len(it) THEN TRUE
                      ELSE curr.idx # it[bpos + 2].idx
       IN items' = Append(items, <<curr.idx, curr.bulk, is_last>>)
    /\ bpos' = bpos + 1
    /\ UNCHANGED <<recVars, toThread, toMain, senderAlive, receiverAlive, hpc,
                   hop, hmsg, hframes, hres, workerVars, nops, sentLog,
                   totalTime, sumFrames, soundHist, errReturned, acqOk,
                   pendingAcq, onScript, glFailed, initVars, lines>>

NextBulk == BulkNext

SpecBulk == InitBulk /\ [][NextBulk]_vars

\* ------------------------------------------------------------- claims
IsPrefix(a, b) == Len(a) <= Len(b) /\ SubSeq(b, 1, Len(a)) = a
IsError(res) == res \notin {"ok", "pending", "panic"}
WorkerStopped == wpc \in {"done", "panicked"}
\* The host cannot complete its send and the worker cannot complete its own.
HostBlockedSending == hpc = "send" /\ ~SendAccepted /\ ~SendFailed
WorkerBlockedSending == wpc \in {"send", "sendErr"} /\ ~ReplyReady
\* No backend (GPU backend, Muxer, render-capture backend) has failed.
NoBackendFailure == werr = "none" /\ ~glFailed

\* C1: whenever the worker thread has stopped, by whatever path, the Muxer's
\* close() has been called exactly once.
C1_CloseOnEveryStop == WorkerStopped => closeCount = 1

\* C2: a finish() that was called is never stuck for good (some step is
\* still possible until it has returned), and once it has returned the worker
\* thread has ended and close() was called exactly once.
C2_FinishJoinsAndCloses ==
    hop = "finish" =>
        /\ hpc = "done" \/ ENABLED Next
        /\ hpc = "done" => wpc = "done" /\ closeCount = 1

\* C3: no reachable state has the host blocked sending on the full
\* host-to-worker channel while the worker is blocked sending on the full
\* worker-to-host channel.
C3_NoSendDeadlock == ~(HostBlockedSending /\ WorkerBlockedSending)

\* C4: the Record and Audio messages handed to the GPU backend / Muxer are,
\* in order, a prefix of those the host sent; while the worker runs, every
\* one the host sent is handed over, in the worker's hand, or still queued in
\* send order: none is reordered, merged or skipped.
C4_FifoOrder ==
    /\ IsPrefix(procLog, sentLog)
    /\ wpc \in {"recv", "process", "send"} =>
          sentLog = procLog
                    \o (IF wpc = "process" /\ IsData(wmsg) THEN <<wmsg>> ELSE <<>>)
                    \o SelectSeq(toThread, IsData)
C4_Witness ==
    /\ Len(procLog) >= 2
    /\ procLog[1] # procLog[2]
    /\ werr = "none"

\* C5: after each time_passed the remainder is above -0.5 frames, and after
\* each record_last_frame it lies in (-0.5, 0.5] frames (stated for the runs
\* in which no backend fails, where every record_last_frame returns Ok).
C5_RemainderBounds ==
    NoBackendFailure =>
        /\ hpc = "idle" /\ hop = "time_passed" => video_remainder > -HalfDen
        /\ hpc = "idle" /\ hop = "record_last_frame" =>
              video_remainder > -HalfDen /\ video_remainder <= HalfDen

\* round(N * fps) for the time passed so far, in frames (half away from zero).
RoundedFrames == (totalTime + HalfDen) \div VDen
Abs(x) == IF x < 0 THEN -x ELSE x

\* C6: after a record_last_frame that returned, with no worker error so far,
\* the frames of all Record messages sent differ from round(N * fps) by at
\* most 1.
C6_LongRunFrameCount ==
    hpc = "idle" /\ hop = "record_last_frame" /\ werr = "none" =>
        Abs(sumFrames - RoundedFrames) <= 1
C6_Witness ==
    /\ hpc = "idle" /\ hop = "record_last_frame" /\ werr = "none"
    /\ CountType(sentLog, "Record") >= 2
    /\ totalTime % VDen # 0

\* C7: when the host, blocked in record's receive, takes an Error(report)
\* from the worker, record_last_frame returns exactly that report (the one the
\* worker sent) and sends no Record message.
C7_ErrorReturnedFromRecord ==
    [][(/\ hpc = "recv" /\ hop = "record_last_frame"
        /\ toMain # <<>> /\ Head(toMain).type = "Error"
        /\ hpc' # "recv")
       => (/\ hres' = Head(toMain).rep
           /\ hres' = werr
           /\ hpc' = "idle"
           /\ toThread' = toThread
           /\ sentLog' = sentLog)]_vars
C7_Witness ==
    /\ nops = 2 /\ hop = "record_last_frame" /\ hpc = "idle"
    /\ hres = "acquire_image failed"
    /\ sentLog = <<>>

\* C8: while the calls made are the scenario's (time_passed(one frame period),
\* capture_opengl, record_last_frame, repeated) and no backend fails, no call
\* panics or returns an error, and after every completed iteration the Record
\* messages sent carry one frame per iteration.
C8_Scenario ==
    onScript /\ NoBackendFailure =>
        /\ hres # "panic" /\ ~IsError(hres)
        /\ hpc = "idle" /\ nops % 3 = 0 => sumFrames = nops \div 3

\* C9: outside the AcquireImage send itself, acquired_image is true only
\* while an accepted AcquireImage has its AcquiredImage unconsumed, and it is
\* not left true by a record_last_frame that returned an error.
C9_AcquiredFlag ==
    /\ acquired_image /\ ~(hpc = "send" /\ hmsg.type = "AcquireImage") =>
          pendingAcq = 1
    /\ hpc = "idle" /\ hop = "record_last_frame" /\ IsError(hres) =>
          ~acquired_image

\* C10: with only Normal-mode calls so far, the samples returned never exceed
\* (time passed) * rate, and after each samples_to_capture the remainder lies
\* in [0, 1/rate).
C10_NormalNeverOverConsumes ==
    ~usedRemaining =>
        /\ totalSamples * TicksPerSecond <= totalTime * SampleRate
        /\ hop = "samples_to_capture" =>
              sound_remainder >= 0 /\ sound_remainder < TicksPerSecond
C10_Witness ==
    /\ ~usedRemaining /\ hop = "samples_to_capture"
    /\ totalSamples >= 1
    /\ sound_remainder > 0

\* A samples_to_capture call in Remaining mode, made with a remainder >= 0.
RemainingCall ==
    /\ hpc = "idle"
    /\ nops' = nops + 1
    /\ hop' = "samples_to_capture"
    /\ lastExtra' >= 0
    /\ sound_remainder >= 0
\* The count returned by the call: the least whole number of samples covering
\* the remainder plus extra, i.e. ceil((sound_remainder + extra) * rate).
ReturnsCeil ==
    LET count == totalSamples' - totalSamples
        owed == sound_remainder + lastExtra' * SampleRate
    IN (count - 1) * TicksPerSecond < owed /\ owed <= count * TicksPerSecond

\* C11 (as stated): after a Remaining{extra} call made with sound_remainder
\* >= 0, |sound_remainder| is below one sample period and the count returned
\* is ceil((sound_remainder + extra) * rate).
C11_RemainingWithinOneSample ==
    [][RemainingCall =>
          /\ Abs(sound_remainder') < TicksPerSecond
          /\ ReturnsCeil]_vars

\* C11 (amended): after a Remaining{extra} call made with sound_remainder
\* >= 0, the count returned is ceil((sound_remainder + extra) * rate) and
\* sound_remainder + extra lies in (-1/rate, 0]: the remainder is within one
\* sample period of -extra, hence of zero only when extra = 0.
C11_RemainingDrainsToExtra ==
    [][RemainingCall =>
          /\ ReturnsCeil
          /\ sound_remainder' + lastExtra' * SampleRate > -TicksPerSecond
          /\ sound_remainder' + lastExtra' * SampleRate <= 0
          /\ lastExtra' = 0 => Abs(sound_remainder') < TicksPerSecond]_vars
C11_Witness ==
    /\ hop = "samples_to_capture" /\ nops = 2
    /\ totalTime > 0 /\ lastExtra = VDen
    /\ totalSamples >= 2
    /\ sound_remainder <= -TicksPerSecond

\* Nothing that init creates exists: no GPU backend, no Muxer, no channel
\* endpoint, no worker thread.
NothingCreated ==
    /\ ~vulkanInited /\ ~muxerOpened
    /\ ~senderAlive /\ ~receiverAlive
    /\ ~wAlive /\ wpc = "unspawned"

\* C12: an init called with an odd width or an odd height never gets past
\* its validation: it returns the validation error, and neither before nor
\* after that is the GPU backend initialised, the Muxer opened, a channel
\* created or the worker spawned; for any arguments, nothing is created while
\* the check has not been made.
C12_OddDimsFailFirst ==
    /\ hpc = "ensure" => NothingCreated
    /\ width % 2 = 1 \/ height % 2 = 1 =>
          /\ hpc \in {"ensure", "failed"}
          /\ hpc = "failed" => hres = "can't handle odd game resolutions yet"
          /\ NothingCreated
C12_Witness ==
    /\ hpc = "failed"
    /\ hres = "can't handle odd game resolutions yet"
    /\ width = 2 /\ height = -1
    /\ NothingCreated

\* The items the documentation promises for lines from position `from` on,
\* `seen` frame bulks having come before: for each frame bulk, frame_count
\* items carrying its ordinal among frame bulks, the last one flagged.
RECURSIVE FramesFrom(_, _, _)
FramesFrom(ls, from, seen) ==
    IF from > Len(ls) THEN <<>>
    ELSE IF ls[from] = 0 THEN FramesFrom(ls, from + 1, seen)
    ELSE [r \in 1 .. ls[from] |->
            <<seen, [line |-> from, frame_count |-> ls[from]], r = ls[from]>>]
         \o FramesFrom(ls, from + 1, seen + 1)
RECURSIVE SumFrameCounts(_)
SumFrameCounts(ls) == IF ls = <<>> THEN 0 ELSE Head(ls) + SumFrameCounts(Tail(ls))

\* C13: the items yielded so far are the first items of: one item per
\* simulated frame, in order, carrying the 0-based ordinal of its frame bulk
\* among frame-bulk lines only, flagged exactly on the last repeat of each
\* bulk; when the iterator is exhausted there are as many items as the sum of
\* the frame counts.
C13_OneItemPerFrame ==
    /\ IsPrefix(items, FramesFrom(lines, 1, 0))
    /\ Len(items) = bpos
    /\ ~ENABLED BulkNext => Len(items) = SumFrameCounts(lines)
C13_Witness ==
    /\ lines = <<0, MaxCount, 1>>
    /\ ~ENABLED BulkNext
    /\ Len(items) = MaxCount + 1
    /\ items[MaxCount][1] = 0 /\ items[MaxCount][3]
    /\ items[MaxCount + 1][1] = 1 /\ items[MaxCount + 1][3]
    /\ ~items[1][3]

\* A record_last_frame call that computes frames == 0.
RecordsNothing ==
    /\ hpc = "idle"
    /\ nops' = nops + 1
    /\ hop' = "record_last_frame"
    /\ FramesOf(video_remainder) = 0

\* C14: a Record the host is about to send, and a Record the worker
\* processes, carries frames >= 1 and is the k-th Record exactly when k
\* AcquireImage requests have been processed successfully, the host having
\* consumed every acknowledgment before the send; a record_last_frame that
\* computes frames == 0 returns at once, sending and receiving nothing.
C14_AcquisitionPrecedesRecord ==
    /\ [](hpc = "send" /\ hmsg.type = "Record" =>
            /\ hmsg.arg >= 1
            /\ pendingAcq = 0
            /\ acqOk = CountType(sentLog, "Record") + 1)
    /\ [](wpc = "process" /\ wmsg.type = "Record" =>
            /\ wmsg.arg >= 1
            /\ acqOk = CountType(procLog, "Record") + 1)
    /\ [][RecordsNothing =>
            /\ hpc' = "idle" /\ hres' = "ok"
            /\ toThread' = toThread /\ toMain' = toMain]_vars
C14_Witness ==
    /\ wpc = "process" /\ wmsg.type = "Record"
    /\ CountType(procLog, "Record") = 1
    /\ acqOk = 2
    /\ hop = "record_last_frame" /\ hpc = "idle"

\* C15: once processing a message has failed, the worker is sending its one
\* Error report or has sent it and is closing (has closed) the Muxer; it
\* hands no further message to the GPU backend or the Muxer and sends nothing
\* else to the host.
C15_WorkerErrorTerminal ==
    /\ [](werr # "none" =>
            /\ wpc \in {"sendErr", "close", "exit", "done"}
            /\ wpc # "sendErr" => CountType(toMain, "Error") <= 1
            /\ wpc = "done" => closeCount = 1)
    /\ [][werr # "none" =>
            /\ procLog' = procLog
            /\ wpc # "sendErr" => Len(toMain') <= Len(toMain)]_vars

\* send_to_thread returns after a failed send while the worker's Error report
\* is still buffered.
SendFailsAfterError ==
    /\ hpc = "send" /\ hpc' # "send"
    /\ SendFailed
    /\ toMain # <<>> /\ Head(toMain).type = "Error"
\* A synchronous receive (record's, or the handle request's) returns.
SyncRecvReturns == hpc = "recv" /\ hpc' # "recv"

\* C16: a send that fails after the worker sent Error(report) stashes exactly
\* that report; a synchronous receive made while a report is stashed returns
\* it; and a synchronous receive returns the opaque "recording thread error"
\* only when the worker produced no report or its report was already
\* returned to a caller.
C16_DeferredErrorDelivery ==
    /\ [][SendFailsAfterError =>
            thread_error' = Head(toMain).rep /\ thread_error' = werr]_vars
    /\ [][SyncRecvReturns /\ thread_error # "none" =>
            hres' = thread_error /\ hres' = werr /\ thread_error' = "none"]_vars
    /\ [][SyncRecvReturns /\ hres' = "recording thread error" =>
            werr = "none" \/ errReturned]_vars
\* record's receive is about to return a report that a failed send stashed.
C16_Witness ==
    /\ hpc = "recv" /\ hop = "record_last_frame"
    /\ thread_error = "acquire_image failed" /\ thread_error = werr
    /\ toMain = <<>> /\ ~wAlive
    /\ ~errReturned

\* The worker has left its loop.
WorkerLeftLoop == wpc \in {"close", "exit", "done"}

\* C17: in a session ended by finish() in which no message processing failed,
\* once the worker has left its loop every Record and Audio message the host
\* sent has been processed, in order, and none is left queued; processing
\* Finish leads straight to close with nothing queued behind it and nothing
\* sent to the host, and the worker sends nothing after leaving the loop.
C17_FinishDropsNothing ==
    /\ [](hop = "finish" /\ werr = "none" /\ WorkerLeftLoop =>
            procLog = sentLog /\ toThread = <<>>)
    /\ [][wpc = "process" /\ wmsg.type = "Finish" /\ wpc' # "process" =>
            /\ wpc' = "close"
            /\ toThread = <<>>
            /\ toMain' = toMain
            /\ procLog' = procLog]_vars
    /\ [][WorkerLeftLoop => Len(toMain') <= Len(toMain)]_vars
C17_Witness ==
    /\ hop = "finish" /\ hpc = "done"
    /\ werr = "none" /\ closeCount = 1
    /\ CountType(sentLog, "Record") >= 1
    /\ CountType(sentLog, "Audio") >= 1
    /\ procLog = sentLog

\* C18: the handle request of capture_opengl never receives AcquiredImage,
\* so capture_opengl never panics in its unreachable!() branch.
C18_HandleRequestNeverPanics == ~(hop = "capture_opengl" /\ hres = "panic")

\* C19: record's assertions never fail: record_last_frame never panics,
\* neither on an unset acquired_image flag when frames > 0 nor on a message
\* other than AcquiredImage or Error, and while it waits in record the flag
\* is set and frames > 0.
C19_RecordAssertionsHold ==
    /\ ~(hop = "record_last_frame" /\ hres = "panic")
    /\ hop = "record_last_frame" /\ hpc = "recv" =>
          /\ acquired_image /\ hframes > 0
          /\ toMain # <<>> => Head(toMain).type \in {"AcquiredImage", "Error"}
\* A record_last_frame with frames > 0 made after an earlier call returned the
\* worker's error.
C19_Witness ==
    /\ hop = "record_last_frame" /\ hpc = "recv"
    /\ nops = 4 /\ totalTime = 2 * VDen
    /\ werr = "acquire_image failed" /\ errReturned
    /\ hframes = 1 /\ acquired_image /\ ~opengl /\ ~glFailed

\* Image acquisitions requested and not yet consumed by the host.
Outstanding ==
    CountType(toThread, "AcquireImage")
    + (IF wpc \in {"process", "send"} /\ wmsg.type = "AcquireImage" THEN 1 ELSE 0)
    + CountType(toMain, "AcquiredImage")

\* C20: at most one image acquisition is outstanding (AcquireImage queued or
\* being processed, or AcquiredImage buffered), and the worker is never
\* blocked sending AcquiredImage on the full worker-to-host channel.
C20_OneAcquisitionOutstanding ==
    /\ Outstanding <= 1
    /\ ~(wpc = "send" /\ wmsg.type = "AcquireImage" /\ ~ReplyReady)
\* Two time_passed calls, each finding a frame due, and one acknowledgment.
C20_Witness ==
    /\ hop = "time_passed" /\ hpc = "idle"
    /\ nops = 2 /\ totalTime = VDen + HalfDen
    /\ FramesOf(video_remainder) = 2
    /\ CountType(toMain, "AcquiredImage") = 1
    /\ Outstanding = 1

====
